---- MODULE Spec2Model ----
(***************************************************************************)
(* DependencyParser (underthesea/models/dependency_parser.py): the batched *)
(* inference pipeline `predict` and the evaluation pass `_evaluate`.       *)
(*                                                                         *)
(* A caller thread runs one operation at a time.  The loop body of each    *)
(* operation is cut at the calls that may raise (the scorer, the decoder), *)
(* so that the position of a call inside the loop is part of the state.    *)
(* The collaborators whose code is outside dependency_parser.py (Dataset,  *)
(* the scorer, the decoder, AttachmentMetric, the vocabulary) are modelled *)
(* from their documented contract.                                         *)
(***************************************************************************)
EXTENDS Integers, Sequences, FiniteSets, TLC

(***************************************************************************)
(* Bounds of the model.                                                    *)
(***************************************************************************)
\* the largest number of sentences handed to predict / held by a loader
MaxSents == 2
\* the largest number of real tokens of a sentence
MaxLen == 2

(***************************************************************************)
(* The vocabulary boundary: ids of the WORD field and labels of REL.       *)
(***************************************************************************)
\* self.WORD.pad_index
pad_index == 0
\* id of the synthetic root placeholder every sentence starts with
bos_index == 1
\* id of an ordinary word
word_index == 2
\* id of a token the vocabulary flags as punctuation (ispunct)
punct_index == 3

\* self.puncts: the ids i of WORD.vocab.stoi whose string is punctuation
puncts == {punct_index}

\* self.REL.vocab[ids]: relation ids to relation labels
RelVocab(ids) == [n \in DOMAIN ids |-> IF ids[n] = 0 THEN "root" ELSE "dep"]

RelIds == {0, 1}

\* the caller threads that may run an operation of the parser
Threads == {"t1", "t2"}

(***************************************************************************)
(* Generic helpers on sequences and finite functions.                      *)
(***************************************************************************)
RECURSIVE Flatten(_)
Flatten(ss) == IF ss = <<>> THEN <<>> ELSE Head(ss) \o Flatten(Tail(ss))

Max(S) == CHOOSE x \in S : \A y \in S : y <= x
Min(S) == CHOOSE x \in S : \A y \in S : x <= y

(***************************************************************************)
(* Dataset.build: the input sentences, each behind its root placeholder,   *)
(* grouped into batches; a batch is padded to its longest sentence.        *)
(***************************************************************************)
\* the sentence of n real tokens: words, and a final punctuation mark when
\* it has more than one token
SentenceOfLen(n) == [j \in 1..n |-> IF j = n /\ n > 1 THEN punct_index ELSE word_index]

\* the sentences of the model: one of every length up to MaxLen
Sentences == {SentenceOfLen(n) : n \in 0..MaxLen}

\* the input lists: at most MaxSents sentences
Corpora == UNION {[1..n -> Sentences] : n \in 0..MaxSents}

\* the bucket counts and token budgets a caller asks for
BucketCounts == {1, MaxSents}
Budgets == {1, (MaxLen + 1) * MaxSents}

\* the sentence numbers of S in ascending order
RECURSIVE Ascending(_)
Ascending(S) == IF S = {} THEN <<>> ELSE <<Min(S)>> \o Ascending(S \ {Min(S)})

\* the bucket of a sentence length: the distinct lengths, in ascending
\* order, spread over at most B buckets
BucketOf(sents, B, l) ==
    LET D == {Len(sents[i]) : i \in DOMAIN sents}
        m == Cardinality(D)
        rank == Cardinality({d \in D : d <= l})
    IN  IF m <= B THEN rank ELSE (rank * B + m - 1) \div m

\* (longest sentence, root placeholder included) x (number of sentences)
TokenCost(sents, batch) ==
    (Max({Len(sents[batch[n]]) : n \in DOMAIN batch}) + 1) * Len(batch)

\* the batches of one bucket: its sentences in order, a new batch begun
\* when one more sentence would pass the budget T
RECURSIVE Chunks(_, _, _, _)
Chunks(sents, idx, cur, T) ==
    IF idx = <<>> THEN (IF cur = <<>> THEN <<>> ELSE <<cur>>)
    ELSE IF cur = <<>> \/ TokenCost(sents, Append(cur, Head(idx))) <= T
         THEN Chunks(sents, Tail(idx), Append(cur, Head(idx)), T)
         ELSE <<cur>> \o Chunks(sents, idx, <<>>, T)

\* dataset.build(batch_size, buckets); dataset.loader: the batches, each the
\* sequence of the numbers of its sentences, bucket after bucket
Build(sents, T, B) ==
    LET D == {Len(sents[i]) : i \in DOMAIN sents}
        nb == IF Cardinality(D) <= B THEN Cardinality(D) ELSE B
        Bucket(b) == Ascending({i \in DOMAIN sents : BucketOf(sents, B, Len(sents[i])) = b})
    IN  Flatten([b \in 1..nb |-> Chunks(sents, Bucket(b), <<>>, T)])

\* the token-id grid of a batch: row s is sentence batch[s], column 0 the
\* root placeholder, the columns past a sentence's end the pad id
Grid(sents, batch) ==
    LET width == Max({Len(sents[batch[s]]) : s \in DOMAIN batch})
    IN  [s \in DOMAIN batch |->
            [j \in 0..width |->
                IF j = 0 THEN bos_index
                ELSE IF j <= Len(sents[batch[s]]) THEN sents[batch[s]][j]
                ELSE pad_index]]

(***************************************************************************)
(* The masking policy (predict lines 105-108, _evaluate lines 144-146,     *)
(* 151-152).                                                               *)
(***************************************************************************)
\* words.ne(v): true where the id differs from v
Ne(grid, v) == [s \in DOMAIN grid |-> [j \in DOMAIN grid[s] |-> grid[s][j] # v]]

\* a plausible slip: the root column is left as it is
KeepFirstColumn(m) == m

\* mask[:, 0] = 0
ZeroFirstColumn(m) == [s \in DOMAIN m |-> [j \in DOMAIN m[s] |-> j # 0 /\ m[s][j]]]

\* mask = words.ne(self.WORD.pad_index); mask[:, 0] = 0
MaskOf(grid) == ZeroFirstColumn(Ne(grid, pad_index))

\* mask.sum(1).tolist()
LensOf(m) == [s \in DOMAIN m |-> Cardinality({j \in DOMAIN m[s] : m[s][j]})]

\* words.unsqueeze(-1).ne(self.puncts).all(-1)
NotPunct(grid) == [s \in DOMAIN grid |-> [j \in DOMAIN grid[s] |-> \A q \in puncts : grid[s][j] # q]]

\* a plausible slip: the punctuation positions are kept
NoNarrowing(m, grid, punct) == m

\* if not self.args['punct']: mask &= words.unsqueeze(-1).ne(self.puncts).all(-1)
NarrowMask(m, grid, punct) ==
    IF punct THEN m
    ELSE [s \in DOMAIN m |-> [j \in DOMAIN m[s] |-> m[s][j] /\ NotPunct(grid)[s][j]]]

(***************************************************************************)
(* The scorer self.model(words, feats): a pure function of the batch.  Its *)
(* parameters are the profile the parser was loaded with.  As the scorer   *)
(* of the repository does, it gives the pad columns the lowest score.      *)
(***************************************************************************)
Profiles == {"chain", "mutual", "root", "self"}

\* the score of a pad column: below every score of a real column
NegInf == -1

\* the compatibility of token i with head h under profile pf
ArcScore(pf, i, h) ==
    CASE pf = "chain"  -> IF h = i - 1 THEN 2 ELSE 0
      [] pf = "mutual" -> IF h = (IF i % 2 = 1 THEN i + 1 ELSE i - 1) THEN 2
                          ELSE IF h = 0 THEN 1 ELSE 0
      [] pf = "root"   -> IF h = 0 THEN 2 ELSE 0
      [] OTHER         -> IF h = i THEN 2 ELSE IF h = 0 THEN 1 ELSE 0

\* the compatibility of label r with the arc i -> h
RelScore(i, h, r) == IF (h = 0) = (r = 0) THEN 1 ELSE 0

\* s_arc: [batch, len, len]
ScoreArcs(pf, grid) ==
    [s \in DOMAIN grid |->
        [i \in DOMAIN grid[s] |->
            [h \in DOMAIN grid[s] |->
                IF grid[s][h] = pad_index THEN NegInf ELSE ArcScore(pf, i, h)]]]

\* s_rel: [batch, len, len, num_relations]
ScoreRels(pf, grid) ==
    [s \in DOMAIN grid |->
        [i \in DOMAIN grid[s] |->
            [h \in DOMAIN grid[s] |-> [r \in RelIds |-> RelScore(i, h, r)]]]]

(***************************************************************************)
(* The tree decoder self.model.decode(s_arc, s_rel, mask, tree, proj).     *)
(***************************************************************************)
RECURSIVE SumOver(_, _)
SumOver(f, S) ==
    IF S = {} THEN 0 ELSE LET x == CHOOSE y \in S : TRUE IN f[x] + SumOver(f, S \ {x})

RECURSIVE Pow(_, _)
Pow(b, e) == IF e = 0 THEN 1 ELSE b * Pow(b, e - 1)

\* argmax(-1): the first index of the largest entry
ArgMaxFirst(row) == Min({h \in DOMAIN row : \A g \in DOMAIN row : row[g] <= row[h]})

\* the real tokens of a row of the mask
RealTokens(mrow) == {j \in DOMAIN mrow : mrow[j]} \ {0}

\* following heads from token i for at most k steps arrives at the root 0
RECURSIVE Climbs(_, _, _)
Climbs(h, i, k) ==
    IF i = 0 THEN TRUE
    ELSE IF k = 0 \/ i \notin DOMAIN h THEN FALSE
    ELSE Climbs(h, h[i], k - 1)

\* a head assignment over the tokens T that is one in-tree with a single
\* token attached to the root
IsArborescence(h, T) ==
    /\ Cardinality({i \in T : h[i] = 0}) = 1
    /\ \A i \in T : Climbs(h, i, Cardinality(T))

\* no two arcs cross over the linear order of the tokens
IsProjectiveHeads(h, T) ==
    \A i, j \in T :
        LET l1 == IF i < h[i] THEN i ELSE h[i]
            r1 == IF i < h[i] THEN h[i] ELSE i
            l2 == IF j < h[j] THEN j ELSE h[j]
            r2 == IF j < h[j] THEN h[j] ELSE j
        IN  ~(l1 < l2 /\ l2 < r1 /\ r1 < r2)

\* the highest-scoring admissible tree of one sentence; among equal scores
\* the first in the row/column scan order of the head vector
BestTree(srow, mrow, proj) ==
    LET T == RealTokens(mrow)
        W == Cardinality(DOMAIN mrow)
        Cands == {h \in [T -> T \cup {0}] :
                    IsArborescence(h, T) /\ (proj => IsProjectiveHeads(h, T))}
        Score(h) == SumOver([i \in T |-> srow[i][h[i]]], T)
        Key(h) == SumOver([i \in T |-> h[i] * Pow(W + 1, W - i)], T)
        best == Max({Score(h) : h \in Cands})
        Top == {h \in Cands : Score(h) = best}
        first == Min({Key(h) : h \in Top})
    IN  IF Cands = {} THEN [i \in T |-> 0]
        ELSE CHOOSE h \in Top : Key(h) = first

\* the heads of a batch: per token the best head, or per sentence the best tree
DecodeArcs(sa, m, tree, proj) ==
    [s \in DOMAIN sa |->
        IF tree
        THEN LET best == BestTree(sa[s], m[s], proj)
             IN  [i \in DOMAIN sa[s] |-> IF i \in DOMAIN best THEN best[i] ELSE 0]
        ELSE [i \in DOMAIN sa[s] |-> ArgMaxFirst(sa[s][i])]]

\* the labels: per token the best label of the row of its assigned head
DecodeRels(sr, ap) ==
    [s \in DOMAIN sr |-> [i \in DOMAIN sr[s] |-> ArgMaxFirst(sr[s][i][ap[s][i]])]]

\* the error decode raises, "none" when it returns
DecodeError(sa, sr, m, tree, proj) ==
    IF proj /\ ~tree THEN "ConfigConflictError"
    ELSE IF \E s \in DOMAIN m : DOMAIN sa[s] # DOMAIN m[s] THEN "ShapeMismatchError"
    ELSE "none"

(***************************************************************************)
(* AttachmentMetric: the running totals and one update of them.            *)
(***************************************************************************)
ZeroMetric == [total |-> 0, correct_arcs |-> 0, correct_rels |-> 0]

\* the positions of a mask that are true
TruePositions(m) == {<<s, j>> \in (DOMAIN m) \X (0..MaxLen + 1) : j \in DOMAIN m[s] /\ m[s][j]}

\* metric(arc_preds, rel_preds, arcs, rels, mask)
MetricUpdate(mt, ap, rp, ga, gr, m) ==
    LET P == TruePositions(m)
        A == {x \in P : ap[x[1]][x[2]] = ga[x[1]][x[2]]}
        R == {x \in A : rp[x[1]][x[2]] = gr[x[1]][x[2]]}
    IN  [total |-> mt.total + Cardinality(P),
         correct_arcs |-> mt.correct_arcs + Cardinality(A),
         correct_rels |-> mt.correct_rels + Cardinality(R)]

\* self.model.loss(s_arc, s_rel, arcs, rels, mask): the margin of the best
\* head over the gold head, summed over the masked tokens
LossOf(sa, ga, m) ==
    LET P == TruePositions(m)
        Margin(x) == sa[x[1]][x[2]][ArgMaxFirst(sa[x[1]][x[2]])] - sa[x[1]][x[2]][ga[x[1]][x[2]]]
    IN  SumOver([x \in P |-> Margin(x)], P)

(***************************************************************************)
(* The gold annotation of a labelled dataset.                              *)
(***************************************************************************)
Golds == {"chain", "flat"}

GoldHead(g, j) == IF g = "chain" THEN j - 1 ELSE IF j = 1 THEN 0 ELSE 1

\* the arcs and rels grids the loader yields beside words
GoldArcs(g, grid) ==
    [s \in DOMAIN grid |->
        [j \in DOMAIN grid[s] |->
            IF j = 0 \/ grid[s][j] = pad_index THEN 0 ELSE GoldHead(g, j)]]

GoldRels(g, grid) ==
    [s \in DOMAIN grid |->
        [j \in DOMAIN grid[s] |->
            IF j = 0 \/ grid[s][j] = pad_index THEN 0
            ELSE IF GoldHead(g, j) = 0 THEN 0 ELSE 1]]

(***************************************************************************)
(* Helpers of predict's loop body (lines 112-118) and of the assembler.    *)
(***************************************************************************)
\* the columns of a row where the mask is true, in ascending order
RECURSIVE SelectRow(_, _, _)
SelectRow(row, mrow, J) ==
    IF J = {} THEN <<>>
    ELSE LET j == Min(J)
         IN  (IF mrow[j] THEN <<row[j]>> ELSE <<>>) \o SelectRow(row, mrow, J \ {j})

\* a plausible slip: the selected values are taken column by column
SelectColumnMajor(grid, m) ==
    LET Cols == UNION {DOMAIN m[s] : s \in DOMAIN m}
        Col(j) == Flatten([s \in DOMAIN m |->
                     IF j \in DOMAIN m[s] /\ m[s][j] THEN <<grid[s][j]>> ELSE <<>>])
        Walk[J \in SUBSET Cols] ==
            IF J = {} THEN <<>> ELSE Col(Min(J)) \o Walk[J \ {Min(J)}]
    IN  Walk[Cols]

\* arc_preds[mask]: the entries at the true positions, row after row
MaskedSelect(grid, m) ==
    Flatten([s \in DOMAIN m |-> SelectRow(grid[s], m[s], DOMAIN m[s])])

\* flat.split(lens): consecutive pieces of the given lengths
RECURSIVE Split(_, _)
Split(flat, ls) ==
    IF ls = <<>> THEN <<>>
    ELSE <<SubSeq(flat, 1, Head(ls))>>
         \o Split(SubSeq(flat, Head(ls) + 1, Len(flat)), Tail(ls))

\* a plausible slip: the new pieces are put before the ones collected so far
ExtendFront(acc, items) == items \o acc

\* acc.extend(items)
Extend(acc, items) == acc \o items

\* 2 ** x stands for exp(x); a pad column has weight 0
ExpWeight(x) == IF x = NegInf THEN 0 ELSE Pow(2, x)

\* s_arc.softmax(-1): each entry as <<its weight, the sum of the row's weights>>
Softmax(sa) ==
    [s \in DOMAIN sa |->
        [i \in DOMAIN sa[s] |->
            LET w == [h \in DOMAIN sa[s][i] |-> ExpWeight(sa[s][i][h])]
                z == SumOver(w, DOMAIN w)
            IN  [h \in DOMAIN sa[s][i] |-> <<w[h], z>>]]]

\* [prob[1:i + 1, :i + 1] for i, prob in zip(lens, arc_probs.unbind())]
ProbSlices(ls, ap) ==
    [s \in DOMAIN ls |-> [i \in 1..ls[s] |-> [h \in 0..ls[s] |-> ap[s][i][h]]]]

\* a plausible slip: the probabilities are computed whatever was asked
ProbsAlways(kw) == TRUE

\* `if prob:` (lines 90, 114, 120)
ProbsWanted(kw) == kw.prob

\* a plausible slip: the tree flag does not reach the decoder
DecodeFlagsNoTree(kw) == [tree |-> FALSE, proj |-> kw.proj]

\* the flags predict hands to decode: its own tree and proj arguments
DecodeFlags(kw) == [tree |-> kw.tree, proj |-> kw.proj]

\* the flags _evaluate hands to decode: self.args['tree'], self.args['proj']
EvalFlags(a) == [tree |-> a.tree, proj |-> a.proj]

\* a plausible slip: the loop leaves out every other batch
SkipBatch(k) == k + 2

\* the for loop's advance to the next batch of the loader
NextBatch(k) == k + 1

\* Dataset.__setattr__: the values, collected in the loader's order, back
\* in the order of the input sentences
Restore(ld, value) ==
    LET order == Flatten(ld)
    IN  [i \in 1..Len(order) |-> value[CHOOSE n \in 1..Len(order) : order[n] = i]]

(***************************************************************************)
(* The state.                                                              *)
(***************************************************************************)
VARIABLES
    data,        \* the input sentences (predict's data; the labelled dataset)
    goldv,       \* the gold annotation of the labelled dataset
    profile,     \* self.model: the parameters of the scorer
    args,        \* self.args: the configuration (tree, proj, punct)
    transform,   \* self.transform: the names of its fields
    given,       \* the loader handed to _evaluate
    call,        \* per thread: the operation asked for and its arguments
    pc,          \* per thread: where the operation stands
    loader,      \* per thread: the batches of the loader, in yield order
    k,           \* per thread: the number of the batch the loop is at
    words,       \* per thread: the id grid of the current batch
    mask,        \* per thread: the validity mask
    lens,        \* per thread: mask.sum(1).tolist()
    s_arc,       \* per thread: the arc scores of the current batch
    s_rel,       \* per thread: the relation scores of the current batch
    arc_preds,   \* per thread: the decoded heads of the current batch
    rel_preds,   \* per thread: the decoded labels of the current batch
    arcs,        \* per thread: predict's list of head sequences
    rels,        \* per thread: predict's list of label-id sequences
    probs,       \* per thread: predict's list of probability slices
    dataset,     \* per thread: the attributes set on the dataset
    saved,       \* per thread: what was written to the output path
    err,         \* per thread: the error the operation raised
    loss,        \* per thread: the loss of the current batch
    total_loss,  \* per thread: <<sum of losses, divisor>>
    metric,      \* per thread: the AttachmentMetric of the running call
    dec_in,      \* per thread: the arguments of the latest decode call
    met_in,      \* per thread: the mask of the latest metric update
    trace        \* per thread: the calls made so far by the running operation

shared == <<data, goldv, profile, args, given, call>>
batchv == <<words, mask, lens, s_arc, s_rel, loss>>
decv   == <<arc_preds, rel_preds, dec_in>>
accv   == <<arcs, rels, probs>>
outv   == <<dataset, saved>>
evalv  == <<total_loss, metric, met_in>>
vars   == <<shared, transform, pc, loader, k, batchv, decv, accv, outv, err, evalv, trace>>

Bools == {TRUE, FALSE}

NoCall == [op |-> "none"]
EvalCall == [op |-> "evaluate"]
\* predict(data, buckets, batch_size, pred, prob, tree, proj)
PredictCalls ==
    {[op |-> "predict", buckets |-> nb, batch_size |-> t,
      prob |-> a, tree |-> b, proj |-> c, pred |-> d] :
        nb \in BucketCounts, t \in Budgets,
        a \in Bools, b \in Bools, c \in Bools, d \in Bools}

Configs == {[tree |-> a, proj |-> b, punct |-> c] : a \in Bools, b \in Bools, c \in Bools}
DefaultConfig == [tree |-> TRUE, proj |-> FALSE, punct |-> FALSE]

\* the value of a local that was not assigned yet
None == <<>>

Locals(calls) ==
    /\ call = calls
    /\ transform = <<"form", "head", "deprel">>
    /\ pc = [p \in Threads |-> "idle"]
    /\ loader = [p \in Threads |-> None]
    /\ k = [p \in Threads |-> 0]
    /\ words = [p \in Threads |-> None]
    /\ mask = [p \in Threads |-> None]
    /\ lens = [p \in Threads |-> None]
    /\ s_arc = [p \in Threads |-> None]
    /\ s_rel = [p \in Threads |-> None]
    /\ loss = [p \in Threads |-> 0]
    /\ arc_preds = [p \in Threads |-> None]
    /\ rel_preds = [p \in Threads |-> None]
    /\ dec_in = [p \in Threads |-> None]
    /\ arcs = [p \in Threads |-> None]
    /\ rels = [p \in Threads |-> None]
    /\ probs = [p \in Threads |-> None]
    /\ dataset = [p \in Threads |-> None]
    /\ saved = [p \in Threads |-> None]
    /\ err = [p \in Threads |-> "none"]
    /\ total_loss = [p \in Threads |-> <<0, 1>>]
    /\ metric = [p \in Threads |-> ZeroMetric]
    /\ met_in = [p \in Threads |-> None]
    /\ trace = [p \in Threads |-> <<>>]

\* the loaders a caller can build over the sentences of d
LoadersOf(d) == {Build(d, t, nb) : t \in Budgets, nb \in BucketCounts}

\* one caller: thread t1 runs one predict or one evaluate
Init ==
    /\ data \in Corpora
    /\ profile \in Profiles
    /\ \E c \in PredictCalls \cup {EvalCall} :
        /\ Locals([p \in Threads |-> IF p = "t1" THEN c ELSE NoCall])
        /\ IF c.op = "evaluate"
           THEN /\ args \in Configs
                /\ goldv \in Golds
                /\ given \in LoadersOf(data)
           ELSE /\ args = DefaultConfig
                /\ goldv = "chain"
                /\ given = None

(***************************************************************************)
(* predict (lines 89-132).                                                 *)
(***************************************************************************)
Event(e, b) == [ev |-> e, b |-> b]

\* lines 89-103: the probs field, the dataset and its loader, the empty
\* lists; Dataset refuses an empty input
PredictStart(p) ==
    /\ pc[p] = "idle"
    /\ call[p].op = "predict"
    /\ transform' = IF ProbsWanted(call[p]) THEN Append(transform, "probs") ELSE transform
    /\ IF Len(data) = 0
       THEN /\ pc' = [pc EXCEPT ![p] = "failed"]
            /\ err' = [err EXCEPT ![p] = "EmptyInputError"]
            /\ UNCHANGED <<loader, k, accv>>
       ELSE /\ loader' = [loader EXCEPT ![p] =
                              Build(data, call[p].batch_size, call[p].buckets)]
            /\ k' = [k EXCEPT ![p] = 1]
            /\ arcs' = [arcs EXCEPT ![p] = <<>>]
            /\ rels' = [rels EXCEPT ![p] = <<>>]
            /\ probs' = [probs EXCEPT ![p] = <<>>]
            /\ pc' = [pc EXCEPT ![p] = "loop"]
            /\ UNCHANGED err
    /\ UNCHANGED <<shared, batchv, decv, outv, evalv, trace>>

\* lines 104-109: the batch, its mask and lens, the scores
PredictScore(p) ==
    /\ pc[p] = "loop"
    /\ call[p].op = "predict"
    /\ k[p] <= Len(loader[p])
    /\ LET w == Grid(data, loader[p][k[p]])
           m == MaskOf(w)
       IN  /\ words' = [words EXCEPT ![p] = w]
           /\ mask' = [mask EXCEPT ![p] = m]
           /\ lens' = [lens EXCEPT ![p] = LensOf(m)]
           /\ s_arc' = [s_arc EXCEPT ![p] = ScoreArcs(profile, w)]
           /\ s_rel' = [s_rel EXCEPT ![p] = ScoreRels(profile, w)]
    /\ trace' = [trace EXCEPT ![p] = Append(@, Event("score", k[p]))]
    /\ pc' = [pc EXCEPT ![p] = "scored"]
    /\ UNCHANGED <<shared, transform, loader, k, loss, decv, accv, outv, err, evalv>>

\* a plausible slip: the error of a batch is swallowed and the loop goes on
PredictScoreSkips(p) ==
    /\ pc[p] = "loop"
    /\ call[p].op = "predict"
    /\ k[p] <= Len(loader[p])
    /\ k' = [k EXCEPT ![p] = NextBatch(k[p])]
    /\ trace' = [trace EXCEPT ![p] = Append(@, Event("score", k[p]))]
    /\ err' = [err EXCEPT ![p] = "ScorerError"]
    /\ UNCHANGED <<shared, transform, pc, loader, batchv, decv, accv, outv, evalv>>

\* line 109 raises: the error leaves predict
PredictScoreFails(p) ==
    /\ pc[p] = "loop"
    /\ call[p].op = "predict"
    /\ k[p] <= Len(loader[p])
    /\ LET w == Grid(data, loader[p][k[p]])
           m == MaskOf(w)
       IN  /\ words' = [words EXCEPT ![p] = w]
           /\ mask' = [mask EXCEPT ![p] = m]
           /\ lens' = [lens EXCEPT ![p] = LensOf(m)]
    /\ trace' = [trace EXCEPT ![p] = Append(@, Event("score", k[p]))]
    /\ err' = [err EXCEPT ![p] = "ScorerError"]
    /\ pc' = [pc EXCEPT ![p] = "failed"]
    /\ UNCHANGED <<shared, transform, loader, k, s_arc, s_rel, loss, decv, accv, outv, evalv>>

\* lines 110-116: decode, the per-sentence pieces, the probability slices
PredictDecode(p) ==
    /\ pc[p] = "scored"
    /\ call[p].op = "predict"
    /\ LET f == DecodeFlags(call[p])
           e == DecodeError(s_arc[p], s_rel[p], mask[p], f.tree, f.proj)
           ap == DecodeArcs(s_arc[p], mask[p], f.tree, f.proj)
           rp == DecodeRels(s_rel[p], ap)
       IN  /\ dec_in' = [dec_in EXCEPT ![p] =
                           [b |-> k[p], mask |-> mask[p], tree |-> f.tree, proj |-> f.proj]]
           /\ IF e # "none"
              THEN /\ err' = [err EXCEPT ![p] = e]
                   /\ pc' = [pc EXCEPT ![p] = "failed"]
                   /\ trace' = [trace EXCEPT ![p] = Append(@, Event("decode", k[p]))]
                   /\ UNCHANGED <<arc_preds, rel_preds, accv, k>>
              ELSE /\ arc_preds' = [arc_preds EXCEPT ![p] = ap]
                   /\ rel_preds' = [rel_preds EXCEPT ![p] = rp]
                   /\ arcs' = [arcs EXCEPT ![p] =
                                 Extend(@, Split(MaskedSelect(ap, mask[p]), lens[p]))]
                   /\ rels' = [rels EXCEPT ![p] =
                                 Extend(@, Split(MaskedSelect(rp, mask[p]), lens[p]))]
                   /\ IF ProbsWanted(call[p])
                      THEN /\ probs' = [probs EXCEPT ![p] =
                                          Extend(@, ProbSlices(lens[p], Softmax(s_arc[p])))]
                           /\ trace' = [trace EXCEPT ![p] =
                                          @ \o <<Event("decode", k[p]), Event("softmax", k[p])>>]
                      ELSE /\ UNCHANGED probs
                           /\ trace' = [trace EXCEPT ![p] = Append(@, Event("decode", k[p]))]
                   /\ k' = [k EXCEPT ![p] = NextBatch(k[p])]
                   /\ pc' = [pc EXCEPT ![p] = "loop"]
                   /\ UNCHANGED err
    /\ UNCHANGED <<shared, transform, loader, batchv, outv, evalv>>

\* lines 99, 123: datetime.now() - start in clock ticks; a call shorter
\* than a tick of the clock reads the same instant twice
Elapsed == {0, 1}

\* lines 117-132: the lists, the labels, the attributes, the optional save,
\* then the sentences per second of line 130, whose division raises on an
\* elapsed time of zero: the attributes are set and the file is written,
\* and predict returns nothing
PredictAssemble(p) ==
    /\ pc[p] = "loop"
    /\ call[p].op = "predict"
    /\ k[p] > Len(loader[p])
    /\ \E elapsed \in Elapsed :
        IF elapsed = 0
        THEN /\ err' = [err EXCEPT ![p] = "ZeroDivisionError"]
             /\ pc' = [pc EXCEPT ![p] = "failed"]
        ELSE /\ pc' = [pc EXCEPT ![p] = "done"]
             /\ UNCHANGED err
    /\ LET preds == [name \in {"arcs", "rels"} \cup
                               (IF ProbsWanted(call[p]) THEN {"probs"} ELSE {}) |->
                        CASE name = "arcs" -> arcs[p]
                          [] name = "rels" -> [n \in DOMAIN rels[p] |-> RelVocab(rels[p][n])]
                          [] OTHER -> probs[p]]
           attrs == [name \in DOMAIN preds |-> Restore(loader[p], preds[name])]
       IN  /\ dataset' = [dataset EXCEPT ![p] = attrs]
           /\ saved' = [saved EXCEPT ![p] = IF call[p].pred THEN attrs ELSE @]
           /\ trace' = [trace EXCEPT ![p] =
                          @ \o <<Event("setattr", 0)>>
                            \o (IF call[p].pred THEN <<Event("save", 0)>> ELSE <<>>)]
    /\ UNCHANGED <<shared, transform, loader, k, batchv, decv, accv, evalv>>

(***************************************************************************)
(* _evaluate (lines 135-157).                                              *)
(***************************************************************************)
\* lines 136-141: a metric of the call's own, the loss at zero
EvalStart(p) ==
    /\ pc[p] = "idle"
    /\ call[p].op = "evaluate"
    /\ loader' = [loader EXCEPT ![p] = given]
    /\ k' = [k EXCEPT ![p] = 1]
    /\ total_loss' = [total_loss EXCEPT ![p] = <<0, 1>>]
    /\ metric' = [metric EXCEPT ![p] = ZeroMetric]
    /\ met_in' = [met_in EXCEPT ![p] = None]
    /\ dec_in' = [dec_in EXCEPT ![p] = None]
    /\ trace' = [trace EXCEPT ![p] = <<>>]
    /\ err' = [err EXCEPT ![p] = "none"]
    /\ pc' = [pc EXCEPT ![p] = "loop"]
    /\ UNCHANGED <<shared, transform, batchv, arc_preds, rel_preds, accv, outv>>

\* lines 143-148: the batch, its mask, the scores, the loss
EvalScore(p) ==
    /\ pc[p] = "loop"
    /\ call[p].op = "evaluate"
    /\ k[p] <= Len(loader[p])
    /\ LET w == Grid(data, loader[p][k[p]])
           m == MaskOf(w)
           sa == ScoreArcs(profile, w)
       IN  /\ words' = [words EXCEPT ![p] = w]
           /\ mask' = [mask EXCEPT ![p] = m]
           /\ s_arc' = [s_arc EXCEPT ![p] = sa]
           /\ s_rel' = [s_rel EXCEPT ![p] = ScoreRels(profile, w)]
           /\ loss' = [loss EXCEPT ![p] = LossOf(sa, GoldArcs(goldv, w), m)]
    /\ trace' = [trace EXCEPT ![p] = Append(@, Event("score", k[p]))]
    /\ pc' = [pc EXCEPT ![p] = "scored"]
    /\ UNCHANGED <<shared, transform, loader, k, lens, decv, accv, outv, err, evalv>>

\* line 147 raises: the error leaves _evaluate
EvalScoreFails(p) ==
    /\ pc[p] = "loop"
    /\ call[p].op = "evaluate"
    /\ k[p] <= Len(loader[p])
    /\ LET w == Grid(data, loader[p][k[p]])
       IN  /\ words' = [words EXCEPT ![p] = w]
           /\ mask' = [mask EXCEPT ![p] = MaskOf(w)]
    /\ trace' = [trace EXCEPT ![p] = Append(@, Event("score", k[p]))]
    /\ err' = [err EXCEPT ![p] = "ScorerError"]
    /\ pc' = [pc EXCEPT ![p] = "failed"]
    /\ UNCHANGED <<shared, transform, loader, k, lens, s_arc, s_rel, loss, decv, accv, outv, evalv>>

\* line 149: decode under the configured flags
EvalDecode(p) ==
    /\ pc[p] = "scored"
    /\ call[p].op = "evaluate"
    /\ LET f == EvalFlags(args)
           e == DecodeError(s_arc[p], s_rel[p], mask[p], f.tree, f.proj)
           ap == DecodeArcs(s_arc[p], mask[p], f.tree, f.proj)
       IN  /\ dec_in' = [dec_in EXCEPT ![p] =
                           [b |-> k[p], mask |-> mask[p], tree |-> f.tree, proj |-> f.proj]]
           /\ trace' = [trace EXCEPT ![p] = Append(@, Event("decode", k[p]))]
           /\ IF e # "none"
              THEN /\ err' = [err EXCEPT ![p] = e]
                   /\ pc' = [pc EXCEPT ![p] = "failed"]
                   /\ UNCHANGED <<arc_preds, rel_preds>>
              ELSE /\ arc_preds' = [arc_preds EXCEPT ![p] = ap]
                   /\ rel_preds' = [rel_preds EXCEPT ![p] = DecodeRels(s_rel[p], ap)]
                   /\ pc' = [pc EXCEPT ![p] = "decoded"]
                   /\ UNCHANGED err
    /\ UNCHANGED <<shared, transform, loader, k, batchv, accv, outv, evalv>>

\* a plausible slip: one metric object serves every running call
EvalMetricShared(p) ==
    /\ pc[p] = "decoded"
    /\ call[p].op = "evaluate"
    /\ LET m == NarrowMask(mask[p], words[p], args.punct)
       IN  /\ mask' = [mask EXCEPT ![p] = m]
           /\ met_in' = [met_in EXCEPT ![p] = [b |-> k[p], mask |-> m]]
           /\ metric' = [q \in Threads |->
                           MetricUpdate(metric[q], arc_preds[p], rel_preds[p],
                                        GoldArcs(goldv, words[p]), GoldRels(goldv, words[p]), m)]
    /\ total_loss' = [total_loss EXCEPT ![p] = <<@[1] + loss[p], 1>>]
    /\ trace' = [trace EXCEPT ![p] = Append(@, Event("metric", k[p]))]
    /\ k' = [k EXCEPT ![p] = NextBatch(k[p])]
    /\ pc' = [pc EXCEPT ![p] = "loop"]
    /\ UNCHANGED <<shared, transform, loader, words, lens, s_arc, s_rel, loss, decv, accv, outv, err>>

\* lines 151-154: the punctuation narrowing, the loss, the metric update
EvalMetric(p) ==
    /\ pc[p] = "decoded"
    /\ call[p].op = "evaluate"
    /\ LET m == NarrowMask(mask[p], words[p], args.punct)
       IN  /\ mask' = [mask EXCEPT ![p] = m]
           /\ met_in' = [met_in EXCEPT ![p] = [b |-> k[p], mask |-> m]]
           /\ metric' = [metric EXCEPT ![p] =
                           MetricUpdate(@, arc_preds[p], rel_preds[p],
                                        GoldArcs(goldv, words[p]), GoldRels(goldv, words[p]), m)]
    /\ total_loss' = [total_loss EXCEPT ![p] = <<@[1] + loss[p], 1>>]
    /\ trace' = [trace EXCEPT ![p] = Append(@, Event("metric", k[p]))]
    /\ k' = [k EXCEPT ![p] = NextBatch(k[p])]
    /\ pc' = [pc EXCEPT ![p] = "loop"]
    /\ UNCHANGED <<shared, transform, loader, words, lens, s_arc, s_rel, loss, decv, accv, outv, err>>

\* lines 155-157: the average loss; the metric is returned.  Over a loader
\* of no batch the division of line 155 raises and nothing is returned
EvalFinish(p) ==
    /\ pc[p] = "loop"
    /\ call[p].op = "evaluate"
    /\ k[p] > Len(loader[p])
    /\ IF Len(loader[p]) = 0
       THEN /\ err' = [err EXCEPT ![p] = "ZeroDivisionError"]
            /\ pc' = [pc EXCEPT ![p] = "failed"]
            /\ UNCHANGED total_loss
       ELSE /\ total_loss' = [total_loss EXCEPT ![p] = <<@[1], Len(loader[p])>>]
            /\ pc' = [pc EXCEPT ![p] = "done"]
            /\ UNCHANGED err
    /\ UNCHANGED <<shared, transform, loader, k, batchv, decv, accv, outv, metric, met_in, trace>>

\* the caller has the result (or the error) and may evaluate again; the
\* locals of the call are gone, the returned values stay with the caller
EvalReturn(p) ==
    /\ pc[p] \in {"done", "failed"}
    /\ call[p].op = "evaluate"
    /\ pc' = [pc EXCEPT ![p] = "idle"]
    /\ loader' = [loader EXCEPT ![p] = None]
    /\ k' = [k EXCEPT ![p] = 0]
    /\ words' = [words EXCEPT ![p] = None]
    /\ mask' = [mask EXCEPT ![p] = None]
    /\ s_arc' = [s_arc EXCEPT ![p] = None]
    /\ s_rel' = [s_rel EXCEPT ![p] = None]
    /\ loss' = [loss EXCEPT ![p] = 0]
    /\ arc_preds' = [arc_preds EXCEPT ![p] = None]
    /\ rel_preds' = [rel_preds EXCEPT ![p] = None]
    /\ UNCHANGED <<shared, transform, lens, dec_in, accv, outv, err, evalv, trace>>

(***************************************************************************)
(* The specifications.                                                     *)
(***************************************************************************)
Next ==
    \E p \in {"t1"} :
        \/ PredictStart(p)
        \/ PredictScore(p)
        \/ PredictScoreFails(p)
        \/ PredictDecode(p)
        \/ PredictAssemble(p)
        \/ EvalStart(p)
        \/ EvalScore(p)
        \/ EvalScoreFails(p)
        \/ EvalDecode(p)
        \/ EvalMetric(p)
        \/ EvalFinish(p)

Spec == Init /\ [][Next]_vars

\* the datasets of the concurrent evaluations: MaxSents non-empty sentences
ConcCorpora == [1..MaxSents -> Sentences \ {SentenceOfLen(0)}]

\* two callers evaluate the same loader, each again and again
InitConc ==
    /\ data \in ConcCorpora
    /\ profile = "mutual"
    /\ args \in {c \in Configs : ~c.proj}
    /\ goldv = "flat"
    /\ given \in LoadersOf(data)
    /\ Locals([p \in Threads |-> EvalCall])

NextConc ==
    \E p \in Threads :
        \/ EvalStart(p)
        \/ EvalScore(p)
        \/ EvalScoreFails(p)
        \/ EvalDecode(p)
        \/ EvalMetric(p)
        \/ EvalFinish(p)
        \/ EvalReturn(p)

SpecConc == InitConc /\ [][NextConc]_vars

(***************************************************************************)
(* What the claims are stated with.                                        *)
(***************************************************************************)
\* the thread runs predict / _evaluate
Predicting(p) == call[p].op = "predict"
Evaluating(p) == call[p].op = "evaluate"

\* the tree and proj flags the running operation was asked to decode with
AskedTree(p) == IF Predicting(p) THEN call[p].tree ELSE args.tree
AskedProj(p) == IF Predicting(p) THEN call[p].proj ELSE args.proj

\* the positions of the events e of batch b in a trace
At(tr, e, b) == {n \in DOMAIN tr : tr[n].ev = e /\ tr[n].b = b}
Has(tr, e) == \E n \in DOMAIN tr : tr[n].ev = e

\* the latest decode call of the thread returned (the loop moved past it)
DecodedOk(p) ==
    /\ dec_in[p] # None
    /\ \/ Predicting(p) /\ k[p] > dec_in[p].b
       \/ Evaluating(p) /\ loader[p] # None
                        /\ (pc[p] = "decoded" \/ k[p] > dec_in[p].b)

\* the number of real tokens of input sentence i
RealLen(i) == Len(data[i])

\* the predictions of input sentence i decoded on its own: heads and labels
AloneArcs(i, tree, proj) ==
    LET n == RealLen(i)
        w == <<[j \in 0..n |-> IF j = 0 THEN bos_index ELSE data[i][j]]>>
        m == <<[j \in 0..n |-> j > 0]>>
    IN  DecodeArcs(ScoreArcs(profile, w), m, tree, proj)

AloneHeads(i, tree, proj) == [j \in 1..RealLen(i) |-> AloneArcs(i, tree, proj)[1][j]]

AloneLabels(i, tree, proj) ==
    LET n == RealLen(i)
        w == <<[j \in 0..n |-> IF j = 0 THEN bos_index ELSE data[i][j]]>>
        rp == DecodeRels(ScoreRels(profile, w), AloneArcs(i, tree, proj))
    IN  [j \in 1..n |-> IF rp[1][j] = 0 THEN "root" ELSE "dep"]

(***************************************************************************)
(* C1: when predict returns, the i-th entry of the dataset's arcs (rels)   *)
(* is the head (label) sequence decoded for the i-th input sentence,       *)
(* whatever the buckets, the batches and the order of the loader.          *)
(***************************************************************************)
C1_InputOrder ==
    \A p \in Threads :
        (Predicting(p) /\ pc[p] = "done") =>
            /\ DOMAIN dataset[p]["arcs"] = DOMAIN data
            /\ DOMAIN dataset[p]["rels"] = DOMAIN data
            /\ \A i \in DOMAIN data :
                /\ dataset[p]["arcs"][i] = AloneHeads(i, call[p].tree, call[p].proj)
                /\ dataset[p]["rels"][i] = AloneLabels(i, call[p].tree, call[p].proj)

\* predict returned after a loader that yields sentence 2 before sentence 1,
\* and the two sentences have different predictions
C1_Witness ==
    /\ Predicting("t1") /\ pc["t1"] = "done"
    /\ Len(data) = 2
    /\ Flatten(loader["t1"]) = <<2, 1>>
    /\ dataset["t1"]["arcs"][1] # dataset["t1"]["arcs"][2]

(***************************************************************************)
(* C2.                                                                     *)
(***************************************************************************)
\* the tokens met by following heads from i, i excluded, within T
RECURSIVE Above(_, _, _)
Above(h, i, seen) ==
    IF i \notin DOMAIN h \/ h[i] \in seen THEN seen
    ELSE Above(h, h[i], seen \cup {h[i]})

RootCount(h, T) == Cardinality({i \in T : h[i] = 0})
ReachesRoot(h, T) == \A i \in T : 0 \in Above(h, i, {})
HasCycle(h, T) == \E i \in T : i \in Above(h, i, {})
TwoCycle(h, T) == \E i, j \in T : i # j /\ h[i] = j /\ h[j] = i

\* the heads decoded for row s of the latest batch, over its real tokens
RowTokens(p, s) == 1..RealLen(loader[p][dec_in[p].b][s])
RowHeads(p, s) == [j \in RowTokens(p, s) |-> arc_preds[p][s][j]]

\* C2 as stated: every sentence decoded under the tree flag has exactly one
\* token attached to the root, every token reaches the root, no cycle
C2_AsStated ==
    \A p \in Threads :
        (DecodedOk(p) /\ AskedTree(p)) =>
            \A s \in DOMAIN arc_preds[p] :
                /\ RootCount(RowHeads(p, s), RowTokens(p, s)) = 1
                /\ ReachesRoot(RowHeads(p, s), RowTokens(p, s))
                /\ ~HasCycle(RowHeads(p, s), RowTokens(p, s))

(***************************************************************************)
(* C2 (amended): every sentence with at least one real token decoded under *)
(* the tree flag has exactly one token attached to the root, every token   *)
(* reaches the root and there is no cycle (a sentence without real tokens  *)
(* has no head at all); a decode without the tree flag and without the     *)
(* proj flag raises no error, also where its heads hold a 2-node cycle.    *)
(***************************************************************************)
C2_TreeEnforced ==
    \A p \in Threads :
        /\ (DecodedOk(p) /\ AskedTree(p)) =>
            \A s \in DOMAIN arc_preds[p] :
                /\ ReachesRoot(RowHeads(p, s), RowTokens(p, s))
                /\ ~HasCycle(RowHeads(p, s), RowTokens(p, s))
                /\ RootCount(RowHeads(p, s), RowTokens(p, s))
                     = (IF RowTokens(p, s) = {} THEN 0 ELSE 1)
        /\ (dec_in[p] # None /\ ~AskedTree(p) /\ ~AskedProj(p)) =>
            /\ err[p] # "ConfigConflictError"
            /\ err[p] # "ShapeMismatchError"
            /\ DecodedOk(p)

\* a tree-enforced decode of a sentence whose per-token best heads are a
\* 2-node cycle
C2_Witness ==
    /\ DecodedOk("t1") /\ AskedTree("t1")
    /\ \E s \in DOMAIN arc_preds["t1"] :
        LET i == loader["t1"][dec_in["t1"].b][s]
        IN  /\ RealLen(i) = 2
            /\ TwoCycle(AloneHeads(i, FALSE, FALSE), 1..2)
            /\ RowHeads("t1", s) # AloneHeads(i, FALSE, FALSE)

(***************************************************************************)
(* C3: the mask handed to the decoder has the shape of the batch's id grid *)
(* and is true exactly off column 0 where the id is not the pad id; it is  *)
(* the mask of the batch being decoded, not of an earlier one.             *)
(***************************************************************************)
\* the mask m is the validity mask of batch b of the thread's loader
IsValidityMask(m, p, b) ==
    LET w == Grid(data, loader[p][b])
    IN  /\ DOMAIN m = DOMAIN w
        /\ \A s \in DOMAIN w :
            /\ DOMAIN m[s] = DOMAIN w[s]
            /\ \A j \in DOMAIN w[s] : m[s][j] = (j # 0 /\ w[s][j] # pad_index)

C3_DecodeMask ==
    \A p \in Threads :
        /\ pc[p] = "scored" => IsValidityMask(mask[p], p, k[p])
        /\ dec_in[p] # None => IsValidityMask(dec_in[p].mask, p, dec_in[p].b)

\* a batch of two sentences of different lengths was decoded: the mask is
\* false at the root column and at the pad position, true at a real token
C3_Witness ==
    /\ dec_in["t1"] # None
    /\ pc["t1"] \in {"loop", "decoded"}
    /\ Len(loader["t1"][dec_in["t1"].b]) = 2
    /\ \E s \in DOMAIN words["t1"] : \E j \in DOMAIN words["t1"][s] :
        /\ words["t1"][s][j] = pad_index
        /\ ~dec_in["t1"].mask[s][j]
        /\ ~dec_in["t1"].mask[s][0]
        /\ dec_in["t1"].mask[s][1]

(***************************************************************************)
(* C4: every batch of the loader is scored once, then decoded once, then   *)
(* (in _evaluate) counted once by the metric, batch after batch; the loop  *)
(* ends, and the result is assembled, only when every batch went through.  *)
(***************************************************************************)
BatchNumbers == 1..MaxSents

\* the calls of batch b in the trace tr are in order and made once
InOrder(tr, b, withMetric) ==
    /\ Cardinality(At(tr, "score", b)) <= 1
    /\ Cardinality(At(tr, "decode", b)) <= 1
    /\ Cardinality(At(tr, "metric", b)) <= 1
    /\ \A d \in At(tr, "decode", b) : \E s \in At(tr, "score", b) : s < d
    /\ \A m \in At(tr, "metric", b) : \E d \in At(tr, "decode", b) : d < m
    /\ b > 1 =>
        \A s \in At(tr, "score", b) :
            \E d \in At(tr, IF withMetric THEN "metric" ELSE "decode", b - 1) : d < s

\* batch b went through every step of the loop body
WentThrough(tr, b, withMetric) ==
    /\ At(tr, "score", b) # {}
    /\ At(tr, "decode", b) # {}
    /\ withMetric => At(tr, "metric", b) # {}

C4_StepOrder ==
    \A p \in Threads :
        /\ \A b \in BatchNumbers : InOrder(trace[p], b, Evaluating(p))
        /\ (\/ pc[p] = "done"
            \/ pc[p] = "loop" /\ k[p] > Len(loader[p])
            \/ Has(trace[p], "setattr")
            \/ Has(trace[p], "save")) =>
             \A b \in DOMAIN loader[p] : WentThrough(trace[p], b, Evaluating(p))

\* predict assembled its result after a loader of two batches
C4_Witness ==
    /\ Predicting("t1") /\ pc["t1"] = "done"
    /\ Len(loader["t1"]) = 2
    /\ Has(trace["t1"], "save")

(***************************************************************************)
(* C5: when the scorer or the decoder raises in predict, the call ends     *)
(* with that error: the raising call is the last one made, it is made      *)
(* once, nothing is attached to the dataset and nothing is written.        *)
(***************************************************************************)
C5_Abort ==
    \A p \in Threads :
        (Predicting(p) /\ err[p] \in {"ScorerError", "ConfigConflictError", "ShapeMismatchError"}) =>
            /\ pc[p] = "failed"
            /\ dataset[p] = None
            /\ saved[p] = None
            /\ ~Has(trace[p], "setattr") /\ ~Has(trace[p], "save")
            /\ trace[p] # <<>>
            /\ LET last == trace[p][Len(trace[p])]
               IN  /\ last.ev = (IF err[p] = "ScorerError" THEN "score" ELSE "decode")
                   /\ Cardinality(At(trace[p], last.ev, last.b)) = 1
                   /\ \A n \in DOMAIN trace[p] : trace[p][n].b <= last.b

\* the scorer raised on the first of two batches
C5_Witness ==
    /\ Predicting("t1") /\ err["t1"] = "ScorerError"
    /\ Len(loader["t1"]) = 2
    /\ Len(trace["t1"]) = 1
    /\ call["t1"].pred

(***************************************************************************)
(* C6: a request for projective decoding without tree enforcement is       *)
(* turned down before any batch is scored, and the decoder is never called *)
(* with proj true and tree false.                                          *)
(***************************************************************************)
C6_ConflictRejected ==
    \A p \in Threads :
        /\ (call[p].op # "none" /\ pc[p] # "idle" /\ AskedProj(p) /\ ~AskedTree(p)) =>
            /\ ~Has(trace[p], "score")
            /\ ~Has(trace[p], "decode")
        /\ dec_in[p] # None => ~(dec_in[p].proj /\ ~dec_in[p].tree)

(***************************************************************************)
(* C7: in _evaluate the mask given to the metric is the decode mask, less  *)
(* the positions of punctuation ids when punct is off; the decoder got the *)
(* mask before that narrowing.                                             *)
(***************************************************************************)
C7_MetricMask ==
    \A p \in Threads :
        Evaluating(p) =>
            /\ met_in[p] # None =>
                LET w == Grid(data, loader[p][met_in[p].b])
                IN  /\ DOMAIN met_in[p].mask = DOMAIN w
                    /\ \A s \in DOMAIN w :
                        /\ DOMAIN met_in[p].mask[s] = DOMAIN w[s]
                        /\ \A j \in DOMAIN w[s] :
                            met_in[p].mask[s][j] =
                                /\ j # 0
                                /\ w[s][j] # pad_index
                                /\ (args.punct \/ w[s][j] \notin puncts)
            /\ dec_in[p] # None => IsValidityMask(dec_in[p].mask, p, dec_in[p].b)

\* punct is off and the batch holds a punctuation token: the metric's mask
\* is narrower than the mask the decoder got for the same batch
C7_Witness ==
    /\ Evaluating("t1") /\ ~args.punct
    /\ met_in["t1"] # None /\ dec_in["t1"] # None
    /\ met_in["t1"].b = dec_in["t1"].b
    /\ met_in["t1"].mask # dec_in["t1"].mask
    /\ \E s \in DOMAIN arc_preds["t1"] : \E j \in DOMAIN arc_preds["t1"][s] :
        /\ dec_in["t1"].mask[s][j]
        /\ arc_preds["t1"][s][j] # 0
        /\ words["t1"][s][arc_preds["t1"][s][j]] \in puncts

(***************************************************************************)
(* C8: without prob no softmax is taken, the transform gets no probs field *)
(* and the result has no probs; with prob the result has one probability   *)
(* slice per sentence.                                                     *)
(***************************************************************************)
C8_ProbsOnRequest ==
    \A p \in Threads :
        Predicting(p) =>
            /\ ~call[p].prob =>
                /\ ~Has(trace[p], "softmax")
                /\ \A n \in DOMAIN transform : transform[n] # "probs"
                /\ probs[p] \in {None, <<>>}
                /\ pc[p] = "done" => "probs" \notin DOMAIN dataset[p]
            /\ (call[p].prob /\ pc[p] = "done") =>
                /\ "probs" \in DOMAIN dataset[p]
                /\ DOMAIN dataset[p]["probs"] = DOMAIN data
                /\ \A i \in DOMAIN data :
                    /\ DOMAIN dataset[p]["probs"][i] = 1..RealLen(i)
                    /\ \A j \in 1..RealLen(i) :
                        DOMAIN dataset[p]["probs"][i][j] = 0..RealLen(i)

\* predict returned without prob after two batches
C8_Witness ==
    /\ Predicting("t1") /\ ~call["t1"].prob /\ pc["t1"] = "done"
    /\ Len(loader["t1"]) = 2
    /\ DOMAIN dataset["t1"] = {"arcs", "rels"}

(***************************************************************************)
(* C9: the totals of an evaluation are the sum of the counts of the        *)
(* batches that this call has passed to its metric, one update per batch   *)
(* in batch order, from zero; another call, before it or interleaved with  *)
(* it, changes nothing of them.                                            *)
(***************************************************************************)
\* the tokens of input sentence i that the metric scores
Scored(i) == {j \in 1..RealLen(i) : args.punct \/ data[i][j] \notin puncts}

\* the counts input sentence i adds to the totals
SentenceCounts(i) ==
    LET heads == AloneArcs(i, args.tree, args.proj)[1]
        arc == {j \in Scored(i) : heads[j] = GoldHead(goldv, j)}
        rel == {j \in arc : (heads[j] = 0) = (GoldHead(goldv, j) = 0)}
    IN  <<Cardinality(Scored(i)), Cardinality(arc), Cardinality(rel)>>

\* the counts batch b of the loader adds to the totals
BatchCounts(b) ==
    LET S == DOMAIN given[b]
        c == [n \in S |-> SentenceCounts(given[b][n])]
    IN  [total |-> SumOver([n \in S |-> c[n][1]], S),
         correct_arcs |-> SumOver([n \in S |-> c[n][2]], S),
         correct_rels |-> SumOver([n \in S |-> c[n][3]], S)]

\* the totals after the first n batches
RECURSIVE TotalsAfter(_)
TotalsAfter(n) ==
    IF n = 0 THEN ZeroMetric
    ELSE LET r == TotalsAfter(n - 1)
             c == BatchCounts(n)
         IN  [total |-> r.total + c.total,
              correct_arcs |-> r.correct_arcs + c.correct_arcs,
              correct_rels |-> r.correct_rels + c.correct_rels]

\* the numbers of the batches the call has counted, in the order of the calls
Counted(tr) == SelectSeq(tr, LAMBDA e : e.ev = "metric")

C9_OwnTotals ==
    \A p \in Threads :
        Evaluating(p) =>
            LET c == Counted(trace[p])
            IN  /\ \A n \in DOMAIN c : c[n].b = n
                /\ metric[p] = TotalsAfter(Len(c))
                /\ pc[p] = "done" => Len(c) = Len(given)

\* t1 has returned totals of two batches while t2, started later, is in the
\* middle of its own pass and has counted one batch
C9_Witness ==
    /\ pc["t1"] = "done" /\ pc["t2"] = "scored"
    /\ Len(given) = 2
    /\ metric["t1"].total > metric["t2"].total
    /\ metric["t2"].total > 0
    /\ metric["t1"].correct_arcs > 0

(***************************************************************************)
(* C10: the heads and labels of a decoded batch, taken at the true         *)
(* positions of the mask row after row and split by the rows' counts, give *)
(* one sequence per sentence of the batch: that sentence's values at its   *)
(* real tokens, in token order; empty for a sentence without real tokens.  *)
(***************************************************************************)
\* the number of sentences in the batches before batch b
SentencesBefore(p, b) == Len(Flatten(SubSeq(loader[p], 1, b - 1)))

C10_PerSentencePieces ==
    \A p \in Threads :
        (Predicting(p) /\ DecodedOk(p)) =>
            LET b == dec_in[p].b
                off == SentencesBefore(p, b)
                n == Len(loader[p][b])
            IN  /\ Len(arcs[p]) = off + n
                /\ Len(rels[p]) = off + n
                /\ \A s \in 1..n :
                    LET i == loader[p][b][s]
                    IN  /\ arcs[p][off + s] = [j \in 1..RealLen(i) |-> arc_preds[p][s][j]]
                        /\ rels[p][off + s] = [j \in 1..RealLen(i) |-> rel_preds[p][s][j]]

\* a batch of a two-token sentence and a sentence without real tokens
C10_Witness ==
    /\ Predicting("t1") /\ DecodedOk("t1")
    /\ Len(arcs["t1"]) = 2
    /\ Len(loader["t1"]) = 1
    /\ arcs["t1"][1] = <<>>
    /\ Len(arcs["t1"][2]) = 2
    /\ arcs["t1"][2][1] # arcs["t1"][2][2]

====
